---------------------------- MODULE Spec2Model ----------------------------
(* Model of the hex-game room server (src/main.py): one room (GameState),   *)
(* one asyncio task per websocket connection, the room's asyncio.Lock, and  *)
(* the handlers of websocket_endpoint / unregister split at their awaits.   *)
EXTENDS Integers, Sequences, FiniteSets, TLC

VARIABLES
    started,              \* GameState.started
    max_players,          \* GameState.max_players
    map_radius,           \* GameState.map_radius
    difficulty,           \* GameState.difficulty
    players_by_ws,        \* GameState.players_by_ws : connection -> color (None = no key)
    players_by_color,     \* GameState.players_by_color : color -> connection (NoConn = no key)
    cells,                \* GameState.cells : id -> [q, r, owner, troops]
    last_moves,           \* GameState.last_moves
    current_player_color, \* GameState.current_player_color
    lock,                 \* GameState.lock : the task holding it, or NoConn
    pc,                   \* where each connection's task stands
    msg,                  \* locals of the handler that last took the lock: msg
    player,               \*   player.color
    kind,                 \*   kind, the result of apply_transfer
    broken,               \* connections whose peer is gone (transport level)
    sent,                 \* messages that handler has delivered
    turn0,                \* current_player_color when that handler took the lock
    nmoves,               \* successful transfers explored in the current game
    env                   \* what the clients may do in this run: [conns, msgs, moves]

roomvars == <<started, max_players, map_radius, difficulty, players_by_ws,
              players_by_color, cells, last_moves, current_player_color>>
vars == <<started, max_players, map_radius, difficulty, players_by_ws,
          players_by_color, cells, last_moves, current_player_color,
          lock, pc, msg, player, kind, broken, sent, turn0, nmoves, env>>

-----------------------------------------------------------------------------
(* Bounds and input sets *)

MaxMoves == 2                               \* successful transfers explored per game
conn_order == <<"w1", "w2", "w3", "w4", "w5">>   \* the websocket connections, each made once
Conns == {conn_order[i] : i \in 1..Len(conn_order)}
NoConn == "nobody"
None == "none"

\* random.shuffle(cell_ids), line 395: every one-to-one choice of start cells is
\* an outcome of the shuffle; the outcomes explored hand these ids, in this
\* order, to the colors of the roster taken in colors_order
StartOrders == {<<0, 1, 5>>}

\* <<source, target, amount>> of the transfer messages the clients send. In the
\* radius-3 map cells 0, 1, 5 are pairwise adjacent, 4 is adjacent to 0 and 5
\* but not to 1, and 40 is no cell.
TransferInputs ==
    {<<0, 5, 10>>, <<0, 5, 1>>, <<0, 4, 1>>, <<1, 0, 1>>, <<5, 0, 1>>,
     <<40, 0, 1>>, <<0, 40, 1>>, <<0, 5, 0>>, <<0, 0, 1>>, <<1, 4, 1>>}

-----------------------------------------------------------------------------
(* Program constants *)

colors_order == <<"blue", "red", "green", "yellow">>
Colors == {colors_order[i] : i \in 1..4}
StartTroops == 10
TroopCap == 100
HistoryLen == 8

Max(a, b) == IF a >= b THEN a ELSE b
Min(a, b) == IF a <= b THEN a ELSE b
Abs(a) == IF a < 0 THEN -a ELSE a


-----------------------------------------------------------------------------
(* GameState helpers (pure) *)

\* GameState.stats: per color, the number of cells it owns (the troop sum is
\* computed by the code but read by nobody)
stats(cs) == [c \in Colors |-> Cardinality({i \in DOMAIN cs : cs[i].owner = c})]

\* GameState.alive_colors: colors with at least one cell, in colors_order
alive_colors(cs) == SelectSeq(colors_order, LAMBDA c : stats(cs)[c] > 0)

\* list.index
IndexOf(seq, x) == CHOOSE i \in 1..Len(seq) : seq[i] = x

InSeq(seq, x) == \E i \in 1..Len(seq) : seq[i] = x

\* mutant: the next color of colors_order, owning cells or not
next_player_color_NoAliveCheck(cs, cur) ==
    IF Len(alive_colors(cs)) = 0 THEN None
    ELSE IF ~InSeq(colors_order, cur) THEN colors_order[1]
    ELSE colors_order[(IndexOf(colors_order, cur) % Len(colors_order)) + 1]

\* mutant: from a color that owns no cell, the alive color that follows it in
\* colors_order (wrapping) in place of alive[0]
next_player_color_CyclicAfter(cs, cur) ==
    LET alive == alive_colors(cs)
        pos(col) == IndexOf(colors_order, col)
        later == {i \in 1..Len(alive) : InSeq(colors_order, cur) /\ pos(alive[i]) > pos(cur)}
    IN IF Len(alive) = 0 THEN None
       ELSE IF ~InSeq(alive, cur)
       THEN (IF later = {} THEN alive[1]
             ELSE alive[CHOOSE i \in later : \A j \in later : i <= j])
       ELSE alive[(IndexOf(alive, cur) % Len(alive)) + 1]

\* next_player_color
next_player_color(cs, cur) ==
    LET alive == alive_colors(cs) IN
    IF Len(alive) = 0 THEN None
    ELSE IF ~InSeq(alive, cur) THEN alive[1]
    ELSE alive[((IndexOf(alive, cur) - 1 + 1) % Len(alive)) + 1]

\* build_map: row bounds r1, r2 of column q
RowLo(R, q) == Max(-R, -q - R)
RowHi(R, q) == Min(R, -q + R)

\* build_map: value of cid when the outer loop reaches column q
RECURSIVE CidAtColumn(_, _)
CidAtColumn(R, q) ==
    IF q <= -R THEN 0
    ELSE CidAtColumn(R, q - 1) + (RowHi(R, q - 1) - RowLo(R, q - 1) + 1)

\* build_map
build_map(radius) ==
    LET R == Max(1, Min(radius, 6))
        N == CidAtColumn(R, R + 1)
        At(i) == CHOOSE p \in (-R..R) \X (-R..R) :
                    /\ RowLo(R, p[1]) <= p[2] /\ p[2] <= RowHi(R, p[1])
                    /\ CidAtColumn(R, p[1]) + (p[2] - RowLo(R, p[1])) = i
    IN [i \in 0..(N - 1) |->
           [q |-> At(i)[1], r |-> At(i)[2], owner |-> None, troops |-> 0]]

\* mutant: a cell also counts as its own neighbor
are_neighbors_SelfToo(src_id, dst_id, cs) ==
    IF src_id \notin DOMAIN cs \/ dst_id \notin DOMAIN cs THEN FALSE
    ELSE LET dq == cs[dst_id].q - cs[src_id].q
             dr == cs[dst_id].r - cs[src_id].r
             ds == -dq - dr
         IN <<Abs(dq), Abs(dr), Abs(ds)>> \in
                {<<1, 0, 1>>, <<1, 1, 0>>, <<0, 1, 1>>, <<0, 0, 0>>}

\* map_gen.py, axial_ring: the (q, r) of the disk, in the order of the two loops
axial_ring(radius) ==
    {p \in (-radius..radius) \X (-radius..radius) : Abs(-p[1] - p[2]) <= radius}

\* map_gen.py, generate_map: ids from 1 in the order of axial_ring
generate_map(radius) ==
    LET ring == axial_ring(radius)
        Before(a, b) == a[1] < b[1] \/ (a[1] = b[1] /\ a[2] < b[2])
        id(p) == Cardinality({x \in ring : Before(x, p)}) + 1
    IN [i \in 1..Cardinality(ring) |->
           LET p == CHOOSE x \in ring : id(x) = i
           IN [q |-> p[1], r |-> p[2], owner |-> None, troops |-> 0]]

\* are_neighbors
are_neighbors(src_id, dst_id, cs) ==
    IF src_id \notin DOMAIN cs \/ dst_id \notin DOMAIN cs THEN FALSE
    ELSE LET dq == cs[dst_id].q - cs[src_id].q
             dr == cs[dst_id].r - cs[src_id].r
             ds == -dq - dr
         IN <<Abs(dq), Abs(dr), Abs(ds)>> \in {<<1, 0, 1>>, <<1, 1, 0>>, <<0, 1, 1>>}

\* mutant: the adjacency check of line 239 left out
TransferAllowed_NoAdjacency(cs, player_color, source, target, amount) ==
    IF source \notin DOMAIN cs \/ target \notin DOMAIN cs THEN FALSE
    ELSE IF cs[source].owner # player_color THEN FALSE
    ELSE IF amount <= 0 \/ cs[source].troops < amount THEN FALSE
    ELSE TRUE

\* apply_transfer, lines 229-240: the checks that return None
TransferAllowed(cs, player_color, source, target, amount) ==
    IF source \notin DOMAIN cs \/ target \notin DOMAIN cs THEN FALSE
    ELSE IF cs[source].owner # player_color THEN FALSE
    ELSE IF amount <= 0 \/ cs[source].troops < amount THEN FALSE
    ELSE IF ~are_neighbors(source, target, cs) THEN FALSE
    ELSE TRUE

\* mutant: amount >= defender_troops in place of line 257
Battle_TieToAttacker(dst, player_color, amount) ==
    LET defender_troops == dst.troops IN
    IF amount >= defender_troops
    THEN [dst EXCEPT !.owner = player_color, !.troops = amount - defender_troops]
    ELSE [dst EXCEPT !.troops = defender_troops - amount]

\* apply_transfer, lines 255-262: battle against a cell of another color
Battle(dst, player_color, amount) ==
    LET defender_troops == dst.troops IN
    IF amount > defender_troops
    THEN [dst EXCEPT !.owner = player_color, !.troops = amount - defender_troops]
    ELSE [dst EXCEPT !.troops = defender_troops - amount]

\* mutant: a source left with no troops is given up
Deduct_ReleaseEmpty(cs, source, amount) ==
    [cs EXCEPT ![source] =
        [@ EXCEPT !.troops = @ - amount,
                  !.owner = IF cs[source].troops = amount THEN None ELSE @]]

\* apply_transfer, line 242: src["troops"] -= amount
Deduct(cs, source, amount) == [cs EXCEPT ![source].troops = @ - amount]

\* mutant: a cell of the mover is set to amount in place of line 252
ResolveTransfer_OwnOverwrite(cs, player_color, source, target, amount) ==
    LET c1 == Deduct(cs, source, amount)
        dst == c1[target]
    IN IF dst.owner = None
       THEN [kind |-> IF amount > 0 THEN "occupy" ELSE "transfer",
             cells |-> [c1 EXCEPT ![target] =
                          [dst EXCEPT !.owner = player_color, !.troops = amount]]]
       ELSE IF dst.owner = player_color
       THEN [kind |-> "transfer",
             cells |-> [c1 EXCEPT ![target] = [dst EXCEPT !.troops = amount]]]
       ELSE [kind |-> "battle",
             cells |-> [c1 EXCEPT ![target] = Battle(dst, player_color, amount)]]

\* apply_transfer, lines 242-262: deduct from the source, then resolve the target
ResolveTransfer(cs, player_color, source, target, amount) ==
    LET c1 == Deduct(cs, source, amount)
        dst == c1[target]
    IN IF dst.owner = None
       THEN [kind |-> IF amount > 0 THEN "occupy" ELSE "transfer",
             cells |-> [c1 EXCEPT ![target] =
                          [dst EXCEPT !.owner = player_color, !.troops = amount]]]
       ELSE IF dst.owner = player_color
       THEN [kind |-> "transfer",
             cells |-> [c1 EXCEPT ![target] = [dst EXCEPT !.troops = dst.troops + amount]]]
       ELSE [kind |-> "battle",
             cells |-> [c1 EXCEPT ![target] = Battle(dst, player_color, amount)]]

\* apply_transfer: [kind, cells]; kind None when a check fails
apply_transfer(cs, player_color, source, target, amount) ==
    IF TransferAllowed(cs, player_color, source, target, amount)
    THEN ResolveTransfer(cs, player_color, source, target, amount)
    ELSE [kind |-> None, cells |-> cs]

\* mutant: the history is never cut
AppendMove_NoTruncate(moves, source, target, color) ==
    Append(moves, [src |-> source, dst |-> target, color |-> color])

\* the last-moves window, lines 448-452
AppendMove(moves, source, target, color) ==
    LET m == Append(moves, [src |-> source, dst |-> target, color |-> color]) IN
    IF Len(m) > HistoryLen THEN SubSeq(m, Len(m) - HistoryLen + 1, Len(m)) ELSE m

\* mutant: the +1 bonus without its cap
PlusOne_NoCap(cs, color) ==
    [i \in DOMAIN cs |->
        IF cs[i].owner = color
        THEN [cs[i] EXCEPT !.troops = cs[i].troops + 1]
        ELSE cs[i]]

\* the +1 bonus of lines 458-460
PlusOne(cs, color) ==
    [i \in DOMAIN cs |->
        IF cs[i].owner = color
        THEN [cs[i] EXCEPT !.troops = Min(TroopCap, cs[i].troops + 1)]
        ELSE cs[i]]

\* the random bonus of lines 463-471 for the outcome (cid, bonus_amt)
RandomBonus(cs, cid, bonus_amt) ==
    [cs EXCEPT ![cid].troops = Min(TroopCap, cs[cid].troops + bonus_amt)]

\* mutant: the cells of a departed color are left as they are
Neutralize_Nothing(cs, color) == cs

\* mutant: the cells lose their owner and keep their troops
Neutralize_KeepTroops(cs, color) ==
    [i \in DOMAIN cs |->
        IF cs[i].owner = color THEN [cs[i] EXCEPT !.owner = None] ELSE cs[i]]

\* unregister, lines 150-153: neutralize the cells of a color
Neutralize(cs, color) ==
    [i \in DOMAIN cs |->
        IF cs[i].owner = color
        THEN [cs[i] EXCEPT !.owner = None, !.troops = 0]
        ELSE cs[i]]

\* the clamps of lines 346, 352, 358
Clamp(lo, hi, v) == Max(lo, Min(hi, v))

-----------------------------------------------------------------------------
(* Inbound messages: the parsed JSON object of line 328 *)

NoMsg == [type |-> "none", ints |-> TRUE, v |-> 0, source |-> 0, target |-> 0, amount |-> 0]

Plain(t) == [NoMsg EXCEPT !.type = t]

\* ints = FALSE: the field read by int(...) holds something int() rejects
TransferMsgs ==
    {[type |-> "transfer", ints |-> TRUE, v |-> 0,
      source |-> x[1], target |-> x[2], amount |-> x[3]] : x \in TransferInputs}
ConfigMsgs == {[Plain("config_difficulty") EXCEPT !.ints = FALSE]}
OtherMsgs ==
    {Plain("set_name"), Plain("emoji"), Plain("start"), Plain("other"),
     [Plain("transfer") EXCEPT !.ints = FALSE]}
Msgs == TransferMsgs \cup ConfigMsgs \cup OtherMsgs

\* the clients of the runs of Spec
GameEnv == [conns |-> {"w1", "w2", "w3"}, msgs |-> Msgs, moves |-> MaxMoves]

-----------------------------------------------------------------------------
(* Roster and transport helpers *)

\* list(game.players_by_ws.keys())
Registered == {w \in Conns : players_by_ws[w] # None}

\* mutant: the last color of colors_order that is no key of players_by_color
free_color_Last ==
    IF {i \in 1..4 : players_by_color[colors_order[i]] = NoConn} = {} THEN None
    ELSE colors_order[CHOOSE i \in 1..4 :
            /\ players_by_color[colors_order[i]] = NoConn
            /\ \A j \in (i + 1)..4 : players_by_color[colors_order[j]] # NoConn]

\* lines 305-309: the first color of colors_order that is no key of players_by_color
FreeColors == {i \in 1..4 : players_by_color[colors_order[i]] = NoConn}
free_color ==
    IF FreeColors = {} THEN None
    ELSE colors_order[CHOOSE i \in FreeColors : \A j \in FreeColors : i <= j]

\* lines 413-416: the first color of colors_order that is a key of players_by_color
TakenColors(pbc) == {i \in 1..4 : pbc[colors_order[i]] # NoConn}
first_player_color(pbc) ==
    IF TakenColors(pbc) = {} THEN None
    ELSE colors_order[CHOOSE i \in TakenColors(pbc) : \A j \in TakenColors(pbc) : i <= j]

\* what reaches the peers of ws_set: a send to a peer that is gone delivers nothing
Delivered(ws_set, typ, info) ==
    {[to |-> w, type |-> typ, info |-> info] : w \in ws_set \ broken}

\* mutant: no lock at all
CanAcquire_Always == TRUE

\* async with game.lock: asyncio.Lock is free or held, and is not reentrant
CanAcquire == lock = NoConn

\* where a task stands once it has left async with game.lock: back in
\* receive_text (continue), out of the endpoint (return: the connection is
\* over), or in the except clause of lines 495-496, calling unregister
AfterLock == {"recv", "closed", "disc"}

\* pc and lock after a step of task c that ends at nextpc
Goto(c, nextpc) ==
    /\ pc' = [pc EXCEPT ![c] = nextpc]
    /\ lock' = IF nextpc \in AfterLock THEN NoConn ELSE lock

\* broadcast, lines 111-119, by the task c that holds the lock, over the roster
\* ws_set, after which the caller goes on to okpc. A send to a gone peer may
\* raise; dead is the set of those that raised. With dead non-empty broadcast
\* awaits unregister(ws), which awaits the lock its own task holds.
Broadcast(c, ws_set, typ, info, okpc, before) ==
    \E dead \in SUBSET (ws_set \cap broken) :
        /\ sent' = before \cup Delivered(ws_set, typ, info)
        /\ Goto(c, IF dead = {} THEN okpc ELSE "stuck")

\* send_lobby
send_lobby(c, ws_set, okpc, before) == Broadcast(c, ws_set, "lobby", "", okpc, before)

\* GameState.reset_game
reset_game ==
    /\ started' = FALSE
    /\ cells' = << >>
    /\ last_moves' = << >>
    /\ current_player_color' = None
    /\ nmoves' = 0

\* the game_over unicasts of lines 159-164 and 270-272
GameOverSends(ws_set, pbw, winner) ==
    UNION {Delivered({w}, "game_over", IF pbw[w] = winner THEN "win" ELSE "lose") :
              w \in ws_set}

-----------------------------------------------------------------------------
(* Initial state: GameState.__init__, no connection yet *)

Init ==
    /\ started = FALSE
    /\ max_players = 4
    /\ map_radius = 3
    /\ difficulty = 2
    /\ players_by_ws = [w \in Conns |-> None]
    /\ players_by_color = [c \in Colors |-> NoConn]
    /\ cells = << >>
    /\ last_moves = << >>
    /\ current_player_color = None
    /\ lock = NoConn
    /\ pc = [w \in Conns |-> "new"]
    /\ msg = NoMsg
    /\ player = None
    /\ kind = None
    /\ broken = {}
    /\ sent = {}
    /\ turn0 = None
    /\ nmoves = 0
    /\ env = GameEnv

-----------------------------------------------------------------------------
(* Taking the room lock *)

\* a new websocket object: the connections are interchangeable, so the next one
\* to connect is taken to be the first unused one of conn_order
FirstUnused ==
    LET free == {i \in 1..Len(conn_order) :
                    conn_order[i] \in env.conns /\ pc[conn_order[i]] = "new"}
    IN IF free = {} THEN NoConn
       ELSE conn_order[CHOOSE i \in free : \A j \in free : i <= j]

\* msg, player, kind, sent and turn0 describe the handler that holds the lock
\* or, with the lock free, the one that released it in the last step
Forget ==
    /\ msg' = NoMsg
    /\ player' = None
    /\ kind' = None
    /\ sent' = {}
    /\ turn0' = None

\* the task c gets the lock and goes on to nextpc; the locals are those of a
\* fresh handler
Enter(c, nextpc, color) ==
    /\ CanAcquire
    /\ lock' = c
    /\ pc' = [pc EXCEPT ![c] = nextpc]
    /\ msg' = NoMsg
    /\ player' = color
    /\ kind' = None
    /\ sent' = {}
    /\ turn0' = current_player_color

\* websocket_endpoint, line 304: a new connection, accepted, takes the lock
ConnectAcquire(c) ==
    /\ pc[c] = "new"
    /\ c = FirstUnused
    /\ Enter(c, "assign", None)
    /\ UNCHANGED <<env, roomvars, broken, nmoves>>

\* websocket_endpoint, lines 326-341: a message arrives, the task takes the
\* lock and looks its player up
CmdAcquire(c) ==
    /\ pc[c] = "recv"
    /\ Enter(c, IF players_by_ws[c] = None THEN "recv" ELSE "cmd", players_by_ws[c])
    /\ UNCHANGED <<env, roomvars, broken, nmoves>>

\* unregister, line 137, called from lines 494 / 496
UnregAcquire(c) ==
    /\ pc[c] = "disc"
    /\ Enter(c, "unreg", None)
    /\ UNCHANGED <<env, roomvars, broken, nmoves>>

-----------------------------------------------------------------------------
(* Transport events *)

\* the peer of a connection goes away while its task awaits receive_text (which
\* then raises WebSocketDisconnect, line 493), or while the task can no longer
\* get there (it waits for the lock in unregister)
PeerBreak(c) ==
    /\ pc[c] \in {"recv", "disc", "stuck"}
    /\ c \notin broken
    /\ broken' = broken \cup {c}
    /\ pc' = [pc EXCEPT ![c] = IF pc[c] = "recv" THEN "disc" ELSE pc[c]]
    /\ IF lock = NoConn
       THEN Forget
       ELSE UNCHANGED <<msg, player, kind, sent, turn0>>
    /\ UNCHANGED <<env, roomvars, lock, nmoves>>

-----------------------------------------------------------------------------
(* Connect: websocket_endpoint, lines 305-322 *)

ConnectAssign(c) ==
    /\ pc[c] = "assign"
    /\ lock = c
    /\ IF free_color = None
       THEN /\ sent' = sent \cup Delivered({c}, "error", "Lobby dolu")
            /\ Goto(c, "closed")
            /\ broken' = broken \ {c}
            /\ UNCHANGED <<players_by_ws, players_by_color, player>>
       ELSE /\ players_by_ws' = [players_by_ws EXCEPT ![c] = free_color]
            /\ players_by_color' = [players_by_color EXCEPT ![free_color] = c]
            /\ player' = free_color
            /\ send_lobby(c, Registered \cup {c}, "recv",
                          sent \cup Delivered({c}, "you_are", free_color))
            /\ UNCHANGED broken
    /\ UNCHANGED <<env, started, max_players, map_radius, difficulty, cells, last_moves,
                   current_player_color, msg, kind, turn0, nmoves>>

-----------------------------------------------------------------------------
(* Commands: websocket_endpoint, lines 343-490, run by the task holding the lock *)

\* the message m of line 328 reaches the dispatch of lines 341-492 (its content
\* plays no part before, so it is drawn here)
InCmd(c, m, t) ==
    /\ pc[c] = "cmd"
    /\ lock = c
    /\ m.type = t
    /\ msg' = m

\* lines 344-360: config, config_map and config_difficulty. int() of a value
\* that is no integer raises, which ends the command loop at line 495.
ConfigTypes == {"config", "config_map", "config_difficulty"}

CmdConfig(c) ==
    \E m \in env.msgs :
    /\ m.type \in ConfigTypes
    /\ InCmd(c, m, m.type)
    /\ IF m.ints
       THEN /\ max_players' = IF m.type = "config" THEN Clamp(2, 4, m.v) ELSE max_players
            /\ map_radius' = IF m.type = "config_map" THEN Clamp(2, 6, m.v) ELSE map_radius
            /\ difficulty' = IF m.type = "config_difficulty" THEN Clamp(1, 3, m.v)
                             ELSE difficulty
            /\ send_lobby(c, Registered, "recv", sent)
       ELSE /\ Goto(c, "disc")
            /\ UNCHANGED <<max_players, map_radius, difficulty, sent>>
    /\ UNCHANGED <<env, started, players_by_ws, players_by_color, cells, last_moves,
                   current_player_color, player, kind, broken, turn0, nmoves>>

\* lines 363-368 (the name itself is not part of the model)
CmdSetName(c) ==
    \E m \in env.msgs :
    /\ InCmd(c, m, "set_name")
    /\ send_lobby(c, Registered, "recv", sent)
    /\ UNCHANGED <<env, roomvars, player, kind, broken, turn0, nmoves>>

\* lines 371-379
CmdEmoji(c) ==
    \E m \in env.msgs :
    /\ InCmd(c, m, "emoji")
    /\ Broadcast(c, Registered, "emoji", player, "recv", sent)
    /\ UNCHANGED <<env, roomvars, player, kind, broken, turn0, nmoves>>

\* line 492: unknown type
CmdOther(c) ==
    \E m \in env.msgs :
    /\ InCmd(c, m, "other")
    /\ Goto(c, "recv")
    /\ UNCHANGED <<env, roomvars, player, kind, broken, sent, turn0, nmoves>>

\* the colors of the roster in the order of colors_order
RosterColors(pbc) == SelectSeq(colors_order, LAMBDA col : pbc[col] # NoConn)

\* mutant: every player starts with twice the troops
PlaceStart_DoubleTroops(cs, order, pbc) ==
    LET cols == RosterColors(pbc) IN
    [i \in DOMAIN cs |->
        IF \E k \in 1..Len(cols) : order[k] = i
        THEN [cs[i] EXCEPT !.owner = cols[CHOOSE k \in 1..Len(cols) : order[k] = i],
                           !.troops = 2 * StartTroops]
        ELSE cs[i]]

\* lines 394-407: one start cell with 10 troops per player, the first unused id
\* of the shuffle
PlaceStart(cs, order, pbc) ==
    LET cols == RosterColors(pbc) IN
    [i \in DOMAIN cs |->
        IF \E k \in 1..Len(cols) : order[k] = i
        THEN [cs[i] EXCEPT !.owner = cols[CHOOSE k \in 1..Len(cols) : order[k] = i],
                           !.troops = StartTroops]
        ELSE cs[i]]

\* lines 382-426
CmdStart(c) ==
    \E m \in env.msgs :
    /\ InCmd(c, m, "start")
    /\ IF started
       THEN /\ Goto(c, "recv")
            /\ UNCHANGED <<started, cells, last_moves, current_player_color, sent, nmoves>>
       ELSE IF Cardinality(Registered) < 2
       THEN /\ Goto(c, "recv")
            /\ sent' = sent \cup Delivered({c}, "error", "En az 2 oyuncu gerekir")
            /\ UNCHANGED <<started, cells, last_moves, current_player_color, nmoves>>
       ELSE /\ \E order \in StartOrders :
                  cells' = PlaceStart(build_map(map_radius), order, players_by_color)
            /\ started' = TRUE
            /\ last_moves' = << >>
            /\ current_player_color' = first_player_color(players_by_color)
            /\ nmoves' = 0
            /\ Broadcast(c, Registered, "start_game", "", "recv", sent)
    /\ UNCHANGED <<env, max_players, map_radius, difficulty, players_by_ws,
                   players_by_color, player, kind, broken, turn0>>

\* lines 429-455: up to the transfer_event broadcast
CmdTransfer(c) ==
    \E m \in env.msgs :
    /\ InCmd(c, m, "transfer")
    /\ m.ints => nmoves < env.moves
    /\ IF ~started \/ current_player_color # player \/ ~m.ints
       THEN /\ Goto(c, "recv")
            /\ UNCHANGED <<cells, last_moves, kind, sent, nmoves>>
       ELSE LET res == apply_transfer(cells, player, m.source, m.target, m.amount)
            IN /\ kind' = res.kind
               /\ cells' = res.cells
               /\ IF res.kind = None
                  THEN /\ Goto(c, "recv")
                       /\ UNCHANGED <<last_moves, sent, nmoves>>
                  ELSE /\ last_moves' = AppendMove(last_moves, m.source, m.target, player)
                       /\ nmoves' = nmoves + 1
                       /\ Broadcast(c, Registered, "transfer_event", res.kind,
                                    "t_event", sent)
    /\ UNCHANGED <<env, started, max_players, map_radius, difficulty, players_by_ws,
                   players_by_color, current_player_color, player, broken, turn0>>

\* lines 457-480: the bonuses, up to the bonus broadcast
OwnedCells(cs, color) == {i \in DOMAIN cs : cs[i].owner = color}

TransferBonus(c) ==
    /\ pc[c] = "t_event"
    /\ lock = c
    /\ LET c1 == PlusOne(cells, player) IN
       IF OwnedCells(c1, player) # {}
       THEN \E cid \in OwnedCells(c1, player), bonus_amt \in 1..3 :
               /\ cells' = RandomBonus(c1, cid, bonus_amt)
               /\ Broadcast(c, Registered, "bonus", player, "t_bonus", sent)
       ELSE /\ cells' = c1
            /\ Goto(c, "t_bonus")
            /\ UNCHANGED sent
    /\ UNCHANGED <<env, started, max_players, map_radius, difficulty, players_by_ws,
                   players_by_color, last_moves, current_player_color, msg,
                   player, kind, broken, turn0, nmoves>>

\* lines 482-490 with check_game_over, lines 265-276
TransferFinish(c) ==
    /\ pc[c] = "t_bonus"
    /\ lock = c
    /\ LET alive == alive_colors(cells) IN
       IF Len(alive) = 1
       THEN /\ reset_game
            /\ send_lobby(c, Registered, "recv",
                          sent \cup GameOverSends(Registered, players_by_ws, alive[1]))
       ELSE /\ current_player_color' = next_player_color(cells, current_player_color)
            /\ Broadcast(c, Registered, IF started THEN "state" ELSE "lobby", "",
                         "recv", sent)
            /\ UNCHANGED <<started, cells, last_moves, nmoves>>
    /\ UNCHANGED <<env, max_players, map_radius, difficulty, players_by_ws,
                   players_by_color, msg, player, kind, broken, turn0>>

-----------------------------------------------------------------------------
(* Disconnect: unregister, lines 138-171 *)

Unregister(c) ==
    /\ pc[c] = "unreg"
    /\ lock = c
    /\ IF players_by_ws[c] = None
       THEN /\ Goto(c, "closed")
            /\ UNCHANGED <<roomvars, player, sent, nmoves>>
       ELSE LET color == players_by_ws[c]
                pbw == [players_by_ws EXCEPT ![c] = None]
                rest == Registered \ {c}
                c1 == Neutralize(cells, color)
                alive == alive_colors(c1)
            IN /\ player' = color
               /\ players_by_ws' = pbw
               /\ players_by_color' = [players_by_color EXCEPT ![color] = NoConn]
               /\ UNCHANGED <<max_players, map_radius, difficulty>>
               /\ IF rest = {}
                  THEN /\ reset_game
                       /\ send_lobby(c, rest, "closed", sent)
                  ELSE IF ~started
                  THEN /\ send_lobby(c, rest, "closed", sent)
                       /\ UNCHANGED <<started, cells, last_moves, current_player_color,
                                      nmoves>>
                  ELSE IF Len(alive) = 1
                  THEN /\ reset_game
                       /\ send_lobby(c, rest, "closed",
                                     sent \cup GameOverSends(rest, pbw, alive[1]))
                  ELSE /\ cells' = c1
                       /\ current_player_color' =
                              IF current_player_color = color
                              THEN next_player_color(c1, current_player_color)
                              ELSE current_player_color
                       /\ send_lobby(c, rest, "closed", sent)
                       /\ UNCHANGED <<started, last_moves, nmoves>>
    /\ broken' = IF pc'[c] = "closed" THEN broken \ {c} ELSE broken
    /\ UNCHANGED <<env, msg, kind, turn0>>

-----------------------------------------------------------------------------
(* Specification *)

Next ==
    \E c \in Conns :
        \/ ConnectAcquire(c)
        \/ ConnectAssign(c)
        \/ CmdAcquire(c)
        \/ CmdConfig(c)
        \/ CmdSetName(c)
        \/ CmdEmoji(c)
        \/ CmdOther(c)
        \/ CmdStart(c)
        \/ CmdTransfer(c)
        \/ TransferBonus(c)
        \/ TransferFinish(c)
        \/ UnregAcquire(c)
        \/ Unregister(c)
        \/ PeerBreak(c)

Spec == Init /\ [][Next]_vars

-----------------------------------------------------------------------------
(* A game late in its course *)

\* Blue (w1) and red (w2) started a game on the radius-3 map with blue on cell
\* 0 and red on cell 1. Blue has moved 1 troop from 0 to 4 and back, red 1
\* troop from 1 to 2 and back, in turns; every move brought its color +1 on all
\* its cells and a random bonus, until the cap of lines 460 and 471 held all
\* four cells at 100. At 100 a move leaves 99 and 101, and the +1 bonus restores
\* 100 and 100. The history holds the last 8 of these moves; it is blue's turn.
LateCells ==
    [i \in DOMAIN build_map(3) |->
        IF i \in {0, 4} THEN [build_map(3)[i] EXCEPT !.owner = "blue", !.troops = TroopCap]
        ELSE IF i \in {1, 2} THEN [build_map(3)[i] EXCEPT !.owner = "red", !.troops = TroopCap]
        ELSE build_map(3)[i]]

LateRound ==
    <<[src |-> 0, dst |-> 4, color |-> "blue"], [src |-> 1, dst |-> 2, color |-> "red"],
      [src |-> 4, dst |-> 0, color |-> "blue"], [src |-> 2, dst |-> 1, color |-> "red"]>>

LateMoves == LateRound \o LateRound

\* what the clients send from there on
LateTransferInputs == {<<0, 4, 1>>, <<4, 0, 1>>, <<1, 2, 1>>, <<1, 0, 100>>}
LateMsgs ==
    {[type |-> "transfer", ints |-> TRUE, v |-> 0,
      source |-> x[1], target |-> x[2], amount |-> x[3]] : x \in LateTransferInputs}
    \cup {[Plain("config") EXCEPT !.v = 2]}
    \cup {Plain("set_name"), Plain("emoji"), Plain("start"), Plain("other")}

LateEnv == [conns |-> {"w1", "w2", "w3"}, msgs |-> LateMsgs, moves |-> MaxMoves]

InitLate ==
    /\ started = TRUE
    /\ max_players = 4
    /\ map_radius = 3
    /\ difficulty = 2
    /\ players_by_ws = [w \in Conns |-> IF w = "w1" THEN "blue"
                                        ELSE IF w = "w2" THEN "red" ELSE None]
    /\ players_by_color = [c \in Colors |-> IF c = "blue" THEN "w1"
                                           ELSE IF c = "red" THEN "w2" ELSE NoConn]
    /\ cells = LateCells
    /\ last_moves = LateMoves
    /\ current_player_color = "blue"
    /\ lock = NoConn
    /\ pc = [w \in Conns |-> IF w \in {"w1", "w2"} THEN "recv" ELSE "new"]
    /\ msg = NoMsg
    /\ player = None
    /\ kind = None
    /\ broken = {}
    /\ sent = {}
    /\ turn0 = None
    /\ nmoves = 0
    /\ env = LateEnv

SpecLate == InitLate /\ [][Next]_vars

-----------------------------------------------------------------------------
(* A room whose clients connect and disconnect and send no command *)

LobbyEnv == [conns |-> Conns, msgs |-> {}, moves |-> MaxMoves]

InitLobby ==
    /\ started = FALSE
    /\ max_players = 4
    /\ map_radius = 3
    /\ difficulty = 2
    /\ players_by_ws = [w \in Conns |-> None]
    /\ players_by_color = [c \in Colors |-> NoConn]
    /\ cells = << >>
    /\ last_moves = << >>
    /\ current_player_color = None
    /\ lock = NoConn
    /\ pc = [w \in Conns |-> "new"]
    /\ msg = NoMsg
    /\ player = None
    /\ kind = None
    /\ broken = {}
    /\ sent = {}
    /\ turn0 = None
    /\ nmoves = 0
    /\ env = LobbyEnv

NextLobby ==
    \E c \in Conns :
        \/ ConnectAcquire(c)
        \/ ConnectAssign(c)
        \/ UnregAcquire(c)
        \/ Unregister(c)
        \/ PeerBreak(c)

SpecLobby == InitLobby /\ [][NextLobby]_vars

-----------------------------------------------------------------------------
(* The map functions on their own *)

\* the radii that line 352 lets map_radius take
Radii == 2..6

InitMap ==
    /\ started = FALSE
    /\ max_players = 4
    /\ map_radius \in Radii
    /\ difficulty = 2
    /\ players_by_ws = [w \in Conns |-> None]
    /\ players_by_color = [c \in Colors |-> NoConn]
    /\ cells = << >>
    /\ last_moves = << >>
    /\ current_player_color = None
    /\ lock = NoConn
    /\ pc = [w \in Conns |-> "new"]
    /\ msg = NoMsg
    /\ player = None
    /\ kind = None
    /\ broken = {}
    /\ sent = {}
    /\ turn0 = None
    /\ nmoves = 0
    /\ env = LobbyEnv

\* line 391: game.cells = build_map(game.map_radius)
MapBuild ==
    /\ cells = << >>
    /\ cells' = build_map(map_radius)
    /\ UNCHANGED <<started, max_players, map_radius, difficulty, players_by_ws,
                   players_by_color, last_moves, current_player_color, lock, pc,
                   msg, player, kind, broken, sent, turn0, nmoves, env>>

\* map_gen.py: generate_map(radius)
MapGenerate ==
    /\ cells = << >>
    /\ cells' = generate_map(map_radius)
    /\ UNCHANGED <<started, max_players, map_radius, difficulty, players_by_ws,
                   players_by_color, last_moves, current_player_color, lock, pc,
                   msg, player, kind, broken, sent, turn0, nmoves, env>>

\* the ids of the map, the id below them and the id above them
ProbeIds == LET ids == DOMAIN cells IN ids \cup {i - 1 : i \in ids} \cup {i + 1 : i \in ids}

\* line 239: are_neighbors(source, target, cells) for the ids a and b; msg
\* holds the ids and kind tells whether the answer was True
MapProbe ==
    /\ cells # << >>
    /\ msg = NoMsg
    /\ \E a, b \in ProbeIds :
          /\ msg' = [Plain("probe") EXCEPT !.source = a, !.target = b]
          /\ kind' = IF are_neighbors(a, b, cells) THEN "neighbors" ELSE None
    /\ UNCHANGED <<started, max_players, map_radius, difficulty, players_by_ws,
                   players_by_color, cells, last_moves, current_player_color, lock,
                   pc, player, broken, sent, turn0, nmoves, env>>

NextMap == MapBuild \/ MapGenerate \/ MapProbe

SpecMap == InitMap /\ [][NextMap]_vars

-----------------------------------------------------------------------------
(* A game of three with a fourth connection still to come *)

\* Blue (w1), red (w2) and green (w3) have connected and one of them has sent
\* start: the shuffle of line 395 gave cell 0 to blue, 1 to red and 5 to green.
\* Nobody has moved yet.
RejoinRoster ==
    [c \in Colors |-> IF c = "blue" THEN "w1"
                      ELSE IF c = "red" THEN "w2"
                      ELSE IF c = "green" THEN "w3" ELSE NoConn]

RejoinCells == PlaceStart(build_map(3), <<0, 1, 5>>, RejoinRoster)

RejoinTransferInputs == {<<0, 4, 1>>, <<1, 0, 1>>, <<5, 4, 1>>}
RejoinMsgs ==
    {[type |-> "transfer", ints |-> TRUE, v |-> 0,
      source |-> x[1], target |-> x[2], amount |-> x[3]] : x \in RejoinTransferInputs}

\* the clients connect, disconnect and send transfer commands
RejoinEnv == [conns |-> {"w1", "w2", "w3", "w4"}, msgs |-> RejoinMsgs, moves |-> MaxMoves]

InitRejoin ==
    /\ started = TRUE
    /\ max_players = 4
    /\ map_radius = 3
    /\ difficulty = 2
    /\ players_by_ws = [w \in Conns |-> IF w = "w1" THEN "blue"
                                        ELSE IF w = "w2" THEN "red"
                                        ELSE IF w = "w3" THEN "green" ELSE None]
    /\ players_by_color = RejoinRoster
    /\ cells = RejoinCells
    /\ last_moves = << >>
    /\ current_player_color = "blue"
    /\ lock = NoConn
    /\ pc = [w \in Conns |-> IF w \in {"w1", "w2", "w3"} THEN "recv" ELSE "new"]
    /\ msg = NoMsg
    /\ player = None
    /\ kind = None
    /\ broken = {}
    /\ sent = {}
    /\ turn0 = None
    /\ nmoves = 0
    /\ env = RejoinEnv

NextRejoin ==
    \E c \in Conns :
        \/ ConnectAcquire(c)
        \/ ConnectAssign(c)
        \/ CmdAcquire(c)
        \/ CmdTransfer(c)
        \/ TransferBonus(c)
        \/ TransferFinish(c)
        \/ UnregAcquire(c)
        \/ Unregister(c)
        \/ PeerBreak(c)

SpecRejoin == InitRejoin /\ [][NextRejoin]_vars

-----------------------------------------------------------------------------
(* Vocabulary of the properties *)

\* the pcs at which a task is inside async with game.lock
InLock == {"assign", "cmd", "t_event", "t_bonus", "unreg", "stuck"}

\* the task c takes the step that dispatches a transfer command
TransferStep(c) ==
    /\ pc[c] = "cmd" /\ lock = c /\ pc'[c] # "cmd"
    /\ msg'.type = "transfer" /\ msg'.ints

\* ... and apply_transfer returned an outcome tag
TransferDone(c) == TransferStep(c) /\ kind' # None

\* the six neighbours of a hex cell in axial coordinates
HexSteps == {<<1, 0>>, <<-1, 0>>, <<0, 1>>, <<0, -1>>, <<1, -1>>, <<-1, 1>>}
Adjacent(a, b) == <<cells[b].q - cells[a].q, cells[b].r - cells[a].r>> \in HexSteps

\* a precondition of the transfer command m of a sender of that color fails
TransferFails(m, color) ==
    \/ ~started
    \/ current_player_color # color
    \/ m.source \notin DOMAIN cells
    \/ m.target \notin DOMAIN cells
    \/ m.amount <= 0
    \/ cells[m.source].owner # color
    \/ cells[m.source].troops < m.amount
    \/ ~Adjacent(m.source, m.target)

\* C1: a transfer command that fails a precondition changes no cell, leaves the
\* history, the turn and the rest of the room as they were, and sends nothing.
C1_FailedTransferIsNoOp ==
    [][\A c \in Conns :
          (TransferStep(c) /\ TransferFails(msg', player))
              => (UNCHANGED roomvars /\ sent' = {} /\ kind' = None /\ pc'[c] = "recv")]_vars

\* C1 witness: the turn holder asked to move troops it has from a cell it owns
\* onto that same cell, and the command was dropped.
C1_Witness ==
    /\ lock = NoConn
    /\ msg.type = "transfer" /\ msg.ints
    /\ started /\ player = current_player_color
    /\ msg.source = msg.target /\ msg.source \in DOMAIN cells
    /\ cells[msg.source].owner = player
    /\ msg.amount > 0 /\ cells[msg.source].troops >= msg.amount
    /\ kind = None /\ sent = {}

\* C2: a send that fails during a broadcast does not keep the handler from
\* finishing and releasing the room lock: no task ever waits, inside the
\* critical section, for the lock that it holds itself.
C2_BrokenPeerNeverBlocksRoom ==
    \A c \in Conns : ~(lock = c /\ pc[c] = "stuck")

\* C3: at most one handler is inside the critical section and it holds the
\* lock; the room's roster, cells, history, turn, started flag and
\* configuration change only in steps of that handler.
C3_OneInLock ==
    /\ Cardinality({c \in Conns : pc[c] \in InLock}) <= 1
    /\ \A c \in Conns : pc[c] \in InLock <=> lock = c

C3_MutationUnderLock ==
    roomvars' # roomvars =>
        /\ lock \in Conns
        /\ pc[lock] \in InLock
        /\ \A d \in Conns \ {lock} : pc'[d] = pc[d]

C3_MutualExclusion == []C3_OneInLock /\ [][C3_MutationUnderLock]_vars

\* C3 witness: a transfer is between two of its steps while the task of a
\* connection that went away waits for the lock to clean up.
C3_Witness ==
    \E a, b \in Conns :
        /\ lock = a /\ pc[a] \in {"t_event", "t_bonus"}
        /\ pc[b] = "disc"
        /\ players_by_ws[b] # None

\* the Lobby state of reset_game with nobody in the roster
CleanLobby ==
    /\ ~started
    /\ cells = << >>
    /\ last_moves = << >>
    /\ current_player_color = None
    /\ Registered = {}
    /\ \A col \in Colors : players_by_color[col] = NoConn

\* every connection that was made has lost its peer or is over
AllGone ==
    /\ \E c \in Conns : pc[c] # "new"
    /\ \A c \in Conns : pc[c] \in {"new", "closed"} \/ c \in broken

\* the task of c has a step to take
CanStep(c) ==
    \/ pc[c] \in {"assign", "cmd", "t_event", "t_bonus", "unreg"}
    \/ pc[c] \in {"recv", "disc"} /\ lock = NoConn

\* C4: once all participants have disconnected and their tasks have done what
\* they can do, the room is in the clean Lobby state with an empty roster.
C4_AllGoneEndsInLobby ==
    (AllGone /\ \A c \in Conns : ~CanStep(c)) => CleanLobby

\* C5: while the game is started and somebody is in the roster, the color whose
\* turn it is owns at least one cell.
C5_TurnHolderOwnsACell ==
    (started /\ Registered # {}) =>
        \E i \in DOMAIN cells : cells[i].owner = current_player_color

\* C5 witness: a handler has just moved the turn to another color in a game
\* that goes on.
C5_Witness ==
    /\ lock = NoConn
    /\ started /\ Registered # {}
    /\ turn0 \in Colors
    /\ current_player_color \in Colors \ {turn0}
    /\ stats(cells)[current_player_color] > 0

\* C6: a started game with exactly one color owning cells is seen only while
\* the transfer that produced it is on its way to check_game_over; it does not
\* outlast the command or disconnect.
C6_SoleSurvivorEndsGame ==
    (started /\ Len(alive_colors(cells)) = 1) =>
        \E c \in Conns : lock = c /\ pc[c] \in {"t_event", "t_bonus"}

\* the task c takes the step of unregister that removes a player of a started
\* game and leaves at least two colors with cells
LeaveStep(c) ==
    /\ pc[c] = "unreg" /\ lock = c /\ pc'[c] # "unreg"
    /\ players_by_ws[c] # None
    /\ started /\ started'
    /\ Cardinality(Registered) > 1
    /\ Len(alive_colors(cells')) >= 2

\* the alive color that follows col in the cyclic order blue, red, green,
\* yellow, col itself left out
NextAliveAfter(col, cs) ==
    LET n == Len(colors_order)
        k == IndexOf(colors_order, col)
        at(d) == colors_order[((k - 1 + d) % n) + 1]
        ds == {d \in 1..(n - 1) : stats(cs)[at(d)] > 0}
    IN at(CHOOSE d \in ds : \A e \in ds : d <= e)

\* C7 as stated: the turn of a departed turn holder passes to the next alive
\* color after it in cyclic order; a departure of another color leaves the
\* turn alone.
C7_TurnPassesToNextAfterDeparted ==
    [][\A c \in Conns :
          LeaveStep(c) =>
              current_player_color' =
                  IF current_player_color = players_by_ws[c]
                  THEN NextAliveAfter(players_by_ws[c], cells')
                  ELSE current_player_color]_vars

\* C7 amended: the turn of a departed turn holder passes to the first alive
\* color of the order blue, red, green, yellow; a departure of another color
\* leaves the turn alone.
C7_TurnPassesToFirstAlive ==
    [][\A c \in Conns :
          LeaveStep(c) =>
              current_player_color' =
                  IF current_player_color = players_by_ws[c]
                  THEN alive_colors(cells')[1]
                  ELSE current_player_color]_vars

\* C7 witness: the turn holder has left, two colors go on, and the turn is
\* with the first of them, which is not the one that follows the departed.
C7_Witness ==
    /\ started
    /\ player \in Colors /\ player = turn0
    /\ players_by_color[player] = NoConn
    /\ msg.type = "none"
    /\ Len(alive_colors(cells)) >= 2
    /\ current_player_color = alive_colors(cells)[1]
    /\ current_player_color # NextAliveAfter(player, cells)

\* C8: a successful transfer of amount into a cell of another color with t
\* troops gives the cell to the mover with amount - t troops when amount > t,
\* and leaves it to its owner with t - amount troops when amount <= t; the
\* outcome is battle.
C8_BattleResolution ==
    [][\A c \in Conns :
          (TransferDone(c) /\ cells[msg'.target].owner \notin {None, player}) =>
              LET t == cells[msg'.target].troops
                  amount == msg'.amount
                  dst == cells'[msg'.target]
              IN /\ kind' = "battle"
                 /\ amount > t => (dst.owner = player /\ dst.troops = amount - t)
                 /\ amount <= t => (dst.owner = cells[msg'.target].owner
                                    /\ dst.troops = t - amount)]_vars

\* C8 witness: a tie, the defender keeps the cell with no troops.
C8_Witness ==
    \E c \in Conns :
        /\ lock = c /\ pc[c] = "t_event"
        /\ kind = "battle"
        /\ cells[msg.target].troops = 0
        /\ cells[msg.target].owner \in Colors \ {player}

\* C9: a successful transfer of amount into an unowned cell makes it a cell of
\* the mover with amount troops, outcome occupy; into a cell of the mover it
\* adds amount to its troops and keeps its owner, outcome transfer.
C9_OccupyAndReinforce ==
    [][\A c \in Conns :
          LET dst == cells[msg'.target] IN
          /\ (TransferDone(c) /\ dst.owner = None) =>
                /\ kind' = "occupy"
                /\ cells'[msg'.target].owner = player
                /\ cells'[msg'.target].troops = msg'.amount
          /\ (TransferDone(c) /\ dst.owner = player) =>
                /\ kind' = "transfer"
                /\ cells'[msg'.target].owner = player
                /\ cells'[msg'.target].troops = dst.troops + msg'.amount]_vars

\* C9 witness: troops were moved onto a cell the mover had occupied before.
C9_Witness ==
    \E c \in Conns :
        /\ lock = c /\ pc[c] = "t_event"
        /\ kind = "transfer"
        /\ cells[msg.target].owner = player
        /\ cells[msg.target].troops > msg.amount
        /\ Len(last_moves) = 2

\* C10: a successful transfer takes exactly amount troops from the source and
\* leaves the source to its owner, also with no troops left.
C10_SourceConservation ==
    [][\A c \in Conns :
          TransferDone(c) =>
              /\ cells[msg'.source].troops = cells'[msg'.source].troops + msg'.amount
              /\ cells'[msg'.source].owner = cells[msg'.source].owner
              /\ cells'[msg'.source].owner = player]_vars

\* C10 witness: the mover sent all the troops of a cell and still owns it.
C10_Witness ==
    \E c \in Conns :
        /\ lock = c /\ pc[c] = "t_event"
        /\ kind # None
        /\ msg.amount > 0
        /\ cells[msg.source].troops = 0
        /\ cells[msg.source].owner = player

\* C11: the troops of every cell are at least 0 and at most 100, also right
\* after a transfer onto a cell of the mover and after the bonuses.
C11_TroopsWithinCap ==
    \A i \in DOMAIN cells : cells[i].troops >= 0 /\ cells[i].troops <= 100

\* C12: a cell without owner has no troops, whatever the map generation, the
\* start, the transfers, the bonuses and the neutralization of a departed
\* color have done.
C12_UnownedCellsAreEmpty ==
    \A i \in DOMAIN cells : cells[i].owner = None => cells[i].troops = 0

\* C12 witness: a color has left a started game that goes on, and the cells it
\* owned are unowned.
C12_Witness ==
    /\ started /\ lock = NoConn
    /\ msg.type = "none"
    /\ player \in Colors /\ players_by_color[player] = NoConn
    /\ stats(cells)[player] = 0
    /\ Len(alive_colors(cells)) >= 2
    /\ \E i \in DOMAIN cells : cells[i].owner = None /\ last_moves # << >>
                               /\ last_moves[1].color = player
                               /\ i = last_moves[1].dst

\* the history after one more move mv: the last 8 of the moves made
HistoryAfter(h, mv) == IF Len(h) < 8 THEN Append(h, mv) ELSE Append(Tail(h), mv)

C13_HistoryStep ==
    /\ \A c \in Conns :
          TransferDone(c) =>
              last_moves' = HistoryAfter(last_moves,
                                [src |-> msg'.source, dst |-> msg'.target, color |-> player])
    /\ (started # started') => last_moves' = << >>
    /\ last_moves' # last_moves =>
          \/ \E c \in Conns : TransferDone(c)
          \/ started # started'

\* C13: the history never holds more than 8 moves; a successful transfer
\* appends its {source, target, color} and drops the oldest entry beyond 8,
\* nothing else adds to it, and it is empty right after start and after a reset.
C13_HistoryIsLastEightMoves ==
    [](Len(last_moves) <= 8) /\ [][C13_HistoryStep]_vars

\* C13 witness: a ninth move was made; the oldest entry is gone and the new
\* move is the last of 8.
C13_Witness ==
    \E c \in Conns :
        /\ lock = c /\ pc[c] = "t_event"
        /\ Len(last_moves) = 8
        /\ last_moves[8] = [src |-> msg.source, dst |-> msg.target, color |-> player]
        /\ \A k \in 1..7 : last_moves[k] = LateMoves[k + 1]
        /\ last_moves[1] # LateMoves[1]

\* C14: while a game is started the commands config, config_map and
\* config_difficulty leave max_players, map_radius and difficulty as they are.
C14_ConfigOnlyInLobby ==
    [][\A c \in Conns :
          (pc[c] = "cmd" /\ lock = c /\ pc'[c] # "cmd" /\ msg'.type \in ConfigTypes /\ started)
              => UNCHANGED <<max_players, map_radius, difficulty>>]_vars

\* the task c takes the step that handles a start command
StartStep(c) == pc[c] = "cmd" /\ lock = c /\ pc'[c] # "cmd" /\ msg'.type = "start"

\* the colors held by the participants
HeldColors == {players_by_ws[w] : w \in Registered}

\* cs is a fresh grid of the configured radius on which every participant's
\* color owns exactly one cell, with 10 troops, and all other cells are unowned
\* and empty
FreshBoard(cs) ==
    /\ DOMAIN cs = DOMAIN build_map(map_radius)
    /\ \A i \in DOMAIN cs : cs[i].q = build_map(map_radius)[i].q
                            /\ cs[i].r = build_map(map_radius)[i].r
    /\ \A col \in HeldColors :
          /\ Cardinality({i \in DOMAIN cs : cs[i].owner = col}) = 1
          /\ \A i \in DOMAIN cs : cs[i].owner = col => cs[i].troops = 10
    /\ \A i \in DOMAIN cs :
          cs[i].owner \notin HeldColors => (cs[i].owner = None /\ cs[i].troops = 0)

\* the first color of blue, red, green, yellow that a participant holds
FirstHeldColor ==
    colors_order[CHOOSE k \in 1..4 :
                    /\ colors_order[k] \in HeldColors
                    /\ \A j \in 1..(k - 1) : colors_order[j] \notin HeldColors]

\* C15: start takes effect only in a room that is not started and has at
\* least 2 participants: then the board is fresh with one cell of 10 troops per
\* participant, started is true, the history is empty and the turn is with the
\* first held color. With fewer than 2 participants only the requester gets an
\* error, with a started game nothing is sent; the room is unchanged in both.
C15_StartCommand ==
    [][\A c \in Conns :
          StartStep(c) =>
              IF ~started /\ Cardinality(Registered) >= 2
              THEN /\ started'
                   /\ FreshBoard(cells')
                   /\ last_moves' = << >>
                   /\ current_player_color' = FirstHeldColor
                   /\ UNCHANGED <<max_players, map_radius, difficulty,
                                  players_by_ws, players_by_color>>
              ELSE /\ UNCHANGED roomvars
                   /\ \A x \in sent' : x.to = c /\ x.type = "error"
                   /\ started => sent' = {}]_vars

\* C15 witness: three participants, one of them has just started the game.
C15_Witness ==
    /\ msg.type = "start"
    /\ started /\ turn0 = None
    /\ Cardinality(Registered) = 3
    /\ last_moves = << >>
    /\ Cardinality({i \in DOMAIN cells : cells[i].owner # None}) = 3
    /\ current_player_color = "blue"

\* C16: a command whose integer fields hold no integers is dropped: its
\* sender's task goes back to receive_text with the connection open and the
\* sender in the roster, and the room is unchanged.
C16_InvalidCommandIsDropped ==
    [][\A c \in Conns :
          (pc[c] = "cmd" /\ lock = c /\ pc'[c] # "cmd" /\ ~msg'.ints)
              => (pc'[c] = "recv" /\ UNCHANGED roomvars)]_vars

\* the connections that hold the color col
Holders(col) == {w \in Conns : players_by_ws[w] = col}

\* the lowest color of blue, red, green, yellow held by nobody
LowestUnused ==
    colors_order[CHOOSE k \in 1..4 :
                    /\ Holders(colors_order[k]) = {}
                    /\ \A j \in 1..(k - 1) : Holders(colors_order[j]) # {}]

C17_RosterConsistent ==
    \A col \in Colors :
        /\ Cardinality(Holders(col)) <= 1
        /\ players_by_color[col] # NoConn <=> Cardinality(Holders(col)) = 1
        /\ players_by_color[col] # NoConn => Holders(col) = {players_by_color[col]}

C17_ConnectStep ==
    \A c \in Conns :
        (pc[c] = "assign" /\ lock = c /\ pc'[c] # "assign") =>
            IF \E col \in Colors : Holders(col) = {}
            THEN /\ players_by_ws' = [players_by_ws EXCEPT ![c] = LowestUnused]
                 /\ players_by_color' = [players_by_color EXCEPT ![LowestUnused] = c]
            ELSE /\ UNCHANGED <<players_by_ws, players_by_color>>
                 /\ pc'[c] = "closed"

\* C17: a color is a key of players_by_color exactly when one registered
\* connection holds it, no color is held twice, and a new connection gets the
\* lowest unused color of blue, red, green, yellow, or is refused with the
\* roster unchanged when all four are held.
C17_RosterMaps == []C17_RosterConsistent /\ [][C17_ConnectStep]_vars

\* C17 witness: all four colors are held and a fifth connection has just been
\* refused.
C17_Witness ==
    \E c \in Conns :
        /\ pc[c] = "closed" /\ lock = NoConn
        /\ players_by_ws[c] = None
        /\ sent = {[to |-> c, type |-> "error", info |-> "Lobby dolu"]}
        /\ \A col \in Colors : Cardinality(Holders(col)) = 1

\* the troops t of a cell after a gain of g under the cap of 100
Capped(t, g) == IF t + g > 100 THEN 100 ELSE t + g

\* C18: the bonus steps of a successful transfer give every cell of the mover
\* +1 troop, one cell of the mover a further b in {1, 2, 3}, both capped at
\* 100, and leave the owners and all cells of others as move resolution left
\* them.
C18_Bonuses ==
    [][\A c \in Conns :
          (pc[c] = "t_event" /\ lock = c /\ pc'[c] # "t_event") =>
              /\ DOMAIN cells' = DOMAIN cells
              /\ \E cid \in {i \in DOMAIN cells : cells[i].owner = player}, b \in {1, 2, 3} :
                    \A i \in DOMAIN cells :
                        /\ cells'[i].owner = cells[i].owner
                        /\ cells'[i].q = cells[i].q /\ cells'[i].r = cells[i].r
                        /\ cells'[i].troops =
                              IF cells[i].owner # player THEN cells[i].troops
                              ELSE IF i = cid THEN Capped(Capped(cells[i].troops, 1), b)
                              ELSE Capped(cells[i].troops, 1)]_vars

\* C18 witness: the bonuses were given where the cap acts: the source went
\* from 99 to 100 and the target stays at 100.
C18_Witness ==
    \E c \in Conns :
        /\ lock = c /\ pc[c] = "t_bonus"
        /\ kind = "transfer"
        /\ cells[msg.source].owner = player /\ cells[msg.source].troops = 100
        /\ cells[msg.target].owner = player /\ cells[msg.target].troops = 100
        /\ \E i \in DOMAIN cells : cells[i].owner \in Colors \ {player}

\* C19: a map of radius R in 2..6 has 3*R*R + 3*R + 1 cells with pairwise
\* distinct (q, r) and |q|, |r|, |-q-r| <= R; are_neighbors on it is symmetric,
\* false for a cell with itself and false when an id is absent.
C19_MapShapeAndAdjacency ==
    cells # << >> =>
        LET R == map_radius
            ids == DOMAIN cells
        IN /\ Cardinality(ids) = 3 * R * R + 3 * R + 1
           /\ Cardinality({<<cells[i].q, cells[i].r>> : i \in ids}) = Cardinality(ids)
           /\ \A i \in ids :
                 /\ cells[i].q >= -R /\ cells[i].q <= R
                 /\ cells[i].r >= -R /\ cells[i].r <= R
                 /\ -cells[i].q - cells[i].r >= -R /\ -cells[i].q - cells[i].r <= R
           /\ msg.type = "probe" =>
                 /\ (kind = "neighbors") = are_neighbors(msg.target, msg.source, cells)
                 /\ msg.source = msg.target => kind = None
                 /\ (msg.source \notin ids \/ msg.target \notin ids) => kind = None

\* C19 witness: on the map of radius 6, with its 127 cells, two cells were
\* found to be neighbors.
C19_Witness ==
    /\ map_radius = 6
    /\ Cardinality(DOMAIN cells) = 127
    /\ msg.type = "probe"
    /\ kind = "neighbors"
    /\ are_neighbors(msg.target, msg.source, cells)

\* C20: in a started game with no command in progress, the color whose turn it
\* is owns a cell with at least 1 troop, so that it has a transfer it can make.
C20_TurnHolderCanMove ==
    (started /\ lock = NoConn /\ current_player_color \in HeldColors) =>
        \E i \in DOMAIN cells :
            cells[i].owner = current_player_color /\ cells[i].troops >= 1

\* the colors that own a cell
OwningColors == {cells[i].owner : i \in DOMAIN cells} \ {None}

\* the task c takes the step of unregister that removes its player
DepartStep(c) ==
    pc[c] = "unreg" /\ lock = c /\ pc'[c] # "unreg" /\ players_by_ws[c] # None

\* C21: every cell is unowned or owned by a color that a participant of the
\* roster holds; when a participant is removed no cell is left to its color,
\* and a connection that gets that color later in the game owns no cell.
C21_OwnersAreParticipants ==
    /\ [](OwningColors \subseteq HeldColors)
    /\ [][\A c \in Conns :
            /\ DepartStep(c) => players_by_ws[c] \notin {cells'[i].owner : i \in DOMAIN cells'}
            /\ (pc[c] = "assign" /\ pc'[c] = "recv" /\ started)
                   => players_by_ws'[c] \notin {cells'[i].owner : i \in DOMAIN cells'}]_vars

\* C21 witness: red has left a game that goes on, a new connection holds red
\* and owns no cell, and a move was made since.
C21_Witness ==
    \E c \in Conns :
        /\ started /\ lock = NoConn
        /\ pc["w2"] = "closed"
        /\ c # "w2" /\ players_by_ws[c] = "red" /\ pc[c] = "recv"
        /\ "red" \notin OwningColors
        /\ Len(alive_colors(cells)) >= 2
        /\ msg.type = "transfer" /\ kind # None /\ nmoves >= 1

\* C22: the roster never holds more participants than max_players.
C22_RosterWithinMaxPlayers ==
    Cardinality(Registered) <= max_players

=============================================================================
